---- MODULE Spec2Model ----
(***************************************************************************)
(* Data-shaping pipeline of the "Leitor & Analisador de Dados" app:        *)
(* ingest.py (_read_csv, _read_json, _clean), the inline loaders          *)
(* of app.py (try_read_csv, try_read_json, "Limpeza leve") and utils.py    *)
(* (infer_types, aggregate).                                               *)
(*                                                                         *)
(* Text is a sequence of one-character strings, so that str.strip, the     *)
(* regular expression ^Unnamed and the CSV field splitting are computed,   *)
(* not assumed.  Values of different Python types are tagged records.      *)
(***************************************************************************)
EXTENDS Integers, Sequences, FiniteSets, TLC

VARIABLES
    pc,        \* position of the request that is being served
    path,      \* "ingest" (ingest.py) or "app" (the inline code of app.py)
    table,     \* the DataFrame the operation works on
    result,    \* what the operation returned: a table, a record, or an error
    result2,   \* what the operation applied next, to that result, returned
    file,      \* the uploaded CSV file: its lines, each a sequence of bytes
    attempt,   \* number of (encoding, separator) combinations tried so far
    tried,     \* the combinations tried, in order, and whether pd.read_csv returned
    doc,       \* the uploaded JSON document: the kind of each of its lines
    fellBack,  \* whether the line-by-line (NDJSON) parse was started
    req        \* the arguments of the aggregate call: x, y, how

vars == <<pc, path, table, result, result2, file, attempt, tried, doc, fellBack, req>>

csvVars == <<file, attempt, tried>>
jsonVars == <<doc, fellBack>>

None == [t |-> "None"]

(***************************************************************************)
(* Bounds of the model.                                                    *)
(***************************************************************************)
MaxCols == 2
MaxRows == 2
MaxLines == 3
MaxAggRows == 3
MaxTimeRows == 2
MaxBins == 40

(***************************************************************************)
(* Text.                                                                   *)
(***************************************************************************)
Whitespace == {" ", "\t", "\n", "\r"}

Digits == <<"0", "1", "2", "3", "4", "5", "6", "7", "8", "9">>

RECURSIVE LStrip(_)
LStrip(s) ==
    IF s # <<>> /\ Head(s) \in Whitespace THEN LStrip(Tail(s)) ELSE s

RECURSIVE RStrip(_)
RStrip(s) ==
    IF s # <<>> /\ s[Len(s)] \in Whitespace
    THEN RStrip(SubSeq(s, 1, Len(s) - 1))
    ELSE s

\* str.strip(): whitespace removed at both ends
Strip(s) == RStrip(LStrip(s))

\* str(n) for an integer n >= 0
RECURSIVE IntToStr(_)
IntToStr(n) ==
    IF n < 10 THEN <<Digits[n + 1]>>
    ELSE IntToStr(n \div 10) \o <<Digits[(n % 10) + 1]>>

\* re.match(r"^Unnamed", s): s starts with the seven characters Unnamed
UnnamedPattern == <<"U", "n", "n", "a", "m", "e", "d">>

MatchUnnamed(s) ==
    /\ Len(s) >= Len(UnnamedPattern)
    /\ SubSeq(s, 1, Len(UnnamedPattern)) = UnnamedPattern

(***************************************************************************)
(* Column labels and cells.  A label is a Python str or a Python int (an   *)
(* Excel header cell, a pandas default column number); a cell is an int, a  *)
(* str or NaN.                                                             *)
(***************************************************************************)
StrL(s) == [t |-> "str", s |-> s]
IntL(n) == [t |-> "int", n |-> n]

\* str(c) of a column label
StrOf(c) == IF c.t = "int" THEN IntToStr(c.n) ELSE c.s

IntCell(n) == [t |-> "int", n |-> n]
StrCell(s) == [t |-> "str", s |-> s]
NaN == [t |-> "nan"]

\* pd.RangeIndex(n): the labels 0 .. n-1
RangeIndex(n) == [i \in 1..n |-> IntL(i - 1)]

(***************************************************************************)
(* A DataFrame: column labels, one dtype per column, row labels, and the   *)
(* cells row by row (cells[r][c]).                                         *)
(***************************************************************************)
Frame(cols, dtypes, index, cells) ==
    [cols |-> cols, dtypes |-> dtypes, index |-> index, cells |-> cells]

EmptyFrame == Frame(<<>>, <<>>, <<>>, <<>>)

Error(kind) == [err |-> kind]

IsTable(v) == "cols" \in DOMAIN v
IsError(v) == "err" \in DOMAIN v

Indices(s) == 1..Len(s)

SeqsUpTo(S, n) == UNION { [1..k -> S] : k \in 0..n }

IsInjective(s) == \A i, j \in Indices(s) : s[i] = s[j] => i = j

\* the subsequence of s at the positions i with keep[i], in order
RECURSIVE SelectAt(_, _)
SelectAt(s, keep) ==
    IF s = <<>> THEN <<>>
    ELSE (IF Head(keep) THEN <<Head(s)>> ELSE <<>>) \o SelectAt(Tail(s), Tail(keep))

\* df.loc[:, keep] for a positional boolean array keep
TakeColumns(df, keep) ==
    Frame(SelectAt(df.cols, keep), SelectAt(df.dtypes, keep), df.index,
          [r \in Indices(df.cells) |-> SelectAt(df.cells[r], keep)])

\* df.reset_index(drop=True)
ResetIndex(df) == [df EXCEPT !.index = RangeIndex(Len(df.cells))]

(***************************************************************************)
(* ingest._clean.                                                          *)
(***************************************************************************)
\* line 177: df.columns = [str(c).strip() for c in df.columns]
StrippedColumns(df) == [i \in Indices(df.cols) |-> StrL(Strip(StrOf(df.cols[i])))]

\* line 178, the key: ~pd.Series(df.columns).astype(str).str.match(r"^Unnamed"),
\* a boolean Series whose own index is RangeIndex(number of columns)
MaskSeries(cols) ==
    [index |-> RangeIndex(Len(cols)),
     values |-> [i \in Indices(cols) |-> ~MatchUnnamed(StrOf(cols[i]))]]

\* pandas check_bool_indexer: a boolean Series used as a .loc key is aligned
\* on its index with the labels of the axis; a label of the axis that is not
\* a label of the Series makes the key unalignable (IndexingError)
Unalignable(labels, key) ==
    /\ key.index # labels
    /\ \E i \in Indices(labels) : \A j \in Indices(key.index) : key.index[j] # labels[i]

\* the key's values taken in the order of the axis labels
AlignedMask(labels, key) ==
    [i \in Indices(labels) |->
        key.values[CHOOSE j \in Indices(key.index) : key.index[j] = labels[i]]]

\* df.loc[:, key] for a boolean Series key
LocColumns(df, key) ==
    IF Unalignable(df.cols, key) THEN Error("IndexingError")
    ELSE IF key.index = df.cols THEN TakeColumns(df, key.values)
    ELSE TakeColumns(df, AlignedMask(df.cols, key))

clean(df) ==
    LET renamed  == [df EXCEPT !.cols = StrippedColumns(df)]
        selected == LocColumns(renamed, MaskSeries(renamed.cols))
    IN  IF IsError(selected) THEN selected ELSE ResetIndex(selected)

(***************************************************************************)
(* app.py line 104, "Limpeza leve":                                        *)
(*   df = df.loc[:, ~df.columns.astype(str).str.match(r"^Unnamed")]        *)
(* the key is a positional boolean array; names are not stripped and the   *)
(* index is not reset.                                                     *)
(***************************************************************************)
app_clean(df) ==
    TakeColumns(df, [i \in Indices(df.cols) |-> ~MatchUnnamed(StrOf(df.cols[i]))])

(***************************************************************************)
(* pd.read_csv(io.BytesIO(raw), encoding=enc, sep=sep) with the C parser.  *)
(* A file is the sequence of its non-blank lines, each a sequence of       *)
(* bytes; ByteE9 is the byte 0xE9, which is no UTF-8 text on its own and   *)
(* is the letter e-acute in latin-1.                                       *)
(***************************************************************************)
ByteE9 == "xE9"

Range(s) == { s[i] : i \in Indices(s) }

\* bytes.decode(enc): utf-8 refuses a stray 0xE9, latin-1 decodes any byte
Decodes(lines, enc) ==
    enc = "latin-1" \/ \A i \in Indices(lines) : ByteE9 \notin Range(lines[i])

RECURSIVE SplitFrom(_, _, _)
SplitFrom(s, sep, field) ==
    IF s = <<>> THEN <<field>>
    ELSE IF Head(s) = sep THEN <<field>> \o SplitFrom(Tail(s), sep, <<>>)
    ELSE SplitFrom(Tail(s), sep, Append(field, Head(s)))

\* the fields of one line
Split(s, sep) == SplitFrom(s, sep, <<>>)

\* header names: an empty header field is named "Unnamed: <position>", and
\* a name seen k times before gets the suffix ".k"
HeaderName(fields, i) ==
    IF fields[i] = <<>> THEN UnnamedPattern \o <<":", " ">> \o IntToStr(i - 1)
    ELSE fields[i]

HeaderLabels(fields) ==
    LET names == [i \in Indices(fields) |-> HeaderName(fields, i)]
        seen(i) == Cardinality({ j \in 1..(i - 1) : names[j] = names[i] })
    IN  [i \in Indices(fields) |->
            StrL(IF seen(i) = 0 THEN names[i]
                 ELSE names[i] \o <<".">> \o IntToStr(seen(i)))]

IsDigits(s) == s # <<>> /\ \A i \in Indices(s) : s[i] \in Range(Digits)

DigitValue(d) == (CHOOSE k \in Indices(Digits) : Digits[k] = d) - 1

RECURSIVE ParseInt(_)
ParseInt(s) ==
    IF s = <<>> THEN 0
    ELSE 10 * ParseInt(SubSeq(s, 1, Len(s) - 1)) + DigitValue(s[Len(s)])

\* the tokenizer pads a short line with empty fields up to the expected width
PadTo(fields, width) ==
    [i \in 1..(IF Len(fields) > width THEN Len(fields) ELSE width) |->
        IF i <= Len(fields) THEN fields[i] ELSE <<>>]

\* dtype inference of one column of text fields; an empty field is missing
ColumnDtype(fields) ==
    LET present == { i \in Indices(fields) : fields[i] # <<>> }
    IN  IF \A i \in present : IsDigits(fields[i])
        THEN (IF present = Indices(fields) THEN "int64" ELSE "float64")
        ELSE "object"

CellOf(field, dtype) ==
    IF field = <<>> THEN NaN
    ELSE IF dtype = "object" THEN StrCell(field)
    ELSE IntCell(ParseInt(field))

Max(a, b) == IF a >= b THEN a ELSE b

\* The tokenizer (tokenizer.c, end_line) takes the width of the table from the
\* header and the first data line, pads shorter lines, and refuses a later
\* line with more fields ("Expected n fields in line k, saw m").  Fields in
\* excess of the header names, at the left, become the row labels.
read_csv(lines, enc, sep) ==
    IF ~Decodes(lines, enc) THEN Error("UnicodeDecodeError")
    ELSE IF lines = <<>> THEN Error("EmptyDataError")
    ELSE
      LET text    == [i \in Indices(lines) |->
                        [j \in Indices(lines[i]) |->
                            IF lines[i][j] = ByteE9 THEN "e_acute" ELSE lines[i][j]]]
          header  == Split(text[1], sep)
          nrows   == Len(text) - 1
          fields  == [r \in 1..nrows |-> Split(text[r + 1], sep)]
          width   == IF nrows = 0 THEN Len(header)
                     ELSE Max(Len(header), Len(fields[1]))
          lead    == width - Len(header)
          padded  == [r \in 1..nrows |-> PadTo(fields[r], width)]
          column(c) == [r \in 1..nrows |-> padded[r][lead + c]]
          dtypes  == [c \in Indices(header) |-> ColumnDtype(column(c))]
          index   == IF lead = 0 THEN RangeIndex(nrows)
                     ELSE [r \in 1..nrows |->
                             [t |-> "key", k |-> SubSeq(padded[r], 1, lead)]]
      IN  IF \E r \in 2..nrows : Len(fields[r]) > width
          THEN Error("ParserError")
          ELSE Frame(HeaderLabels(header), dtypes, index,
                     [r \in 1..nrows |->
                        [c \in Indices(header) |-> CellOf(padded[r][lead + c], dtypes[c])]])

(***************************************************************************)
(* The trial order of ingest._read_csv (lines 93-94) and of               *)
(* app.try_read_csv (lines 58-61): encodings outside, separators inside.   *)
(***************************************************************************)
Encodings == <<"utf-8", "latin-1">>
Separators == <<",", ";", "\t", "|">>

NumCombinations == Len(Encodings) * Len(Separators)

\* the k-th pair of the nested loops, k = 1 .. NumCombinations
Combination(k) ==
    [enc |-> Encodings[((k - 1) \div Len(Separators)) + 1],
     sep |-> Separators[((k - 1) % Len(Separators)) + 1]]

(***************************************************************************)
(* utils.aggregate.                                                        *)
(***************************************************************************)
\* the characters of the model's texts in code-point order
CharOrder ==
    <<"\t", " ", ",", ".", "0", "1", "2", "3", "4", "5", "6", "7", "8", "9",
      ":", ";", "U", "a", "b", "d", "e", "i", "l", "m", "n", "o", "r", "v", "x",
      "|", "e_acute">>

CodePoint(ch) == CHOOSE k \in Indices(CharOrder) : CharOrder[k] = ch

\* Python's s < t on str
RECURSIVE TextLess(_, _)
TextLess(s, t) ==
    IF t = <<>> THEN FALSE
    ELSE IF s = <<>> THEN TRUE
    ELSE IF Head(s) = Head(t) THEN TextLess(Tail(s), Tail(t))
    ELSE CodePoint(Head(s)) < CodePoint(Head(t))

\* the order groupby(sort=True) gives the group keys of one column: values
\* ascending, the missing key last
KeyLess(a, b) ==
    IF a.t = "nan" THEN FALSE
    ELSE IF b.t = "nan" THEN TRUE
    ELSE IF a.t = "int" THEN a.n < b.n
    ELSE IF a.t = "date" THEN a.d < b.d
    ELSE TextLess(a.s, b.s)

RECURSIVE SortKeys(_)
SortKeys(S) ==
    IF S = {} THEN <<>>
    ELSE LET least == CHOOSE a \in S : \A b \in S \ {a} : KeyLess(a, b)
         IN  <<least>> \o SortKeys(S \ {least})

\* positions of the columns labelled x
ColumnsNamed(df, x) == { c \in Indices(df.cols) : df.cols[c] = x }

ColumnPos(df, x) == CHOOSE c \in ColumnsNamed(df, x) : TRUE

\* rows of df whose cell in column c is k (a missing key equals a missing key)
RowsOfKey(df, c, k) == { r \in Indices(df.cells) : df.cells[r][c] = k }

\* the group keys in the order of their first row, as groupby(sort=False)
\* would give them
GroupKeysUnsorted(df, c) ==
    LET firsts == { r \in Indices(df.cells) :
                      \A q \in 1..(r - 1) : df.cells[q][c] # df.cells[r][c] }
    IN  [i \in 1..Cardinality(firsts) |->
            df.cells[CHOOSE r \in firsts :
                        Cardinality({ q \in firsts : q < r }) = i - 1][c]]

\* df.groupby(x, dropna=False): the group keys, in the order of the result
GroupKeys(df, c) == SortKeys({ df.cells[r][c] : r \in Indices(df.cells) })

how_map ==
    [h \in {"soma", "média", "contagem", "mediana", "máximo", "mínimo"} |->
        CASE h = "soma" -> "sum"
          [] h = "média" -> "mean"
          [] h = "contagem" -> "count"
          [] h = "mediana" -> "median"
          [] h = "máximo" -> "max"
          [] h = "mínimo" -> "min"]

\* how_map.get(how, "sum")
HowFunc(how) == IF how \in DOMAIN how_map THEN how_map[how] ELSE "sum"

RECURSIVE SumOf(_, _)
SumOf(f, S) ==
    IF S = {} THEN 0
    ELSE LET r == CHOOSE r \in S : TRUE IN f[r] + SumOf(f, S \ {r})

RECURSIVE Gcd(_, _)
Gcd(a, b) == IF b = 0 THEN a ELSE Gcd(b, a % b)

\* the float num/den; a whole value is written as that integer
Ratio(num, den) ==
    IF num % den = 0 THEN IntCell(num \div den)
    ELSE [t |-> "ratio", num |-> num \div Gcd(num, den), den |-> den \div Gcd(num, den)]

\* the k-th smallest of the values f[r], r in S (ties counted)
Ranked(f, S, k) ==
    f[CHOOSE r \in S :
        /\ Cardinality({ q \in S : f[q] < f[r] }) < k
        /\ Cardinality({ q \in S : f[q] <= f[r] }) >= k]

\* the reduction func of the non-missing cells of column c over the rows S
Reduce(func, df, c, S) ==
    LET present == { r \in S : df.cells[r][c].t # "nan" }
        f == [r \in present |-> df.cells[r][c].n]
        n == Cardinality(present)
    IN  IF func = "sum" THEN IntCell(SumOf(f, present))
        ELSE IF func = "count" THEN IntCell(n)
        ELSE IF n = 0 THEN NaN
        ELSE IF func = "mean" THEN Ratio(SumOf(f, present), n)
        ELSE IF func = "max" THEN IntCell(Ranked(f, present, n))
        ELSE IF func = "min" THEN IntCell(Ranked(f, present, 1))
        ELSE IF n % 2 = 1 THEN IntCell(Ranked(f, present, (n + 1) \div 2))
        ELSE Ratio(Ranked(f, present, n \div 2) + Ranked(f, present, (n \div 2) + 1), 2)

ColX == StrL(<<"x">>)
ColValor == StrL(<<"v", "a", "l", "o", "r">>)

\* the two-column frame of a reduction: one row per key
Grouped(keys, values, keyDtype, valueDtype) ==
    Frame(<<ColX, ColValor>>, <<keyDtype, valueDtype>>, RangeIndex(Len(keys)),
          [i \in Indices(keys) |-> <<keys[i], values[i]>>])

\* lines 52-55: df.groupby(x, dropna=False).size().reset_index(name="valor");
\* reset_index puts the key back as column x beside "valor" and refuses to
\* when x is itself "valor"
aggregate_count(df, x) ==
    IF ColumnsNamed(df, x) = {} THEN Error("KeyError")
    ELSE IF Cardinality(ColumnsNamed(df, x)) > 1 THEN Error("ValueError")
    ELSE IF x = ColValor THEN Error("ValueError")
    ELSE LET c == ColumnPos(df, x)
             keys == GroupKeys(df, c)
         IN  Grouped(keys,
                     [i \in Indices(keys) |-> IntCell(Cardinality(RowsOfKey(df, c, keys[i])))],
                     df.dtypes[c], "int64")

\* lines 56-59: df.groupby(x, dropna=False)[y].agg(func).reset_index(); y is a
\* column of numbers (app.py line 271 offers no other) or no column of df
aggregate_reduce(df, x, y, how) ==
    IF ColumnsNamed(df, x) = {} THEN Error("KeyError")
    ELSE IF Cardinality(ColumnsNamed(df, x)) > 1 THEN Error("ValueError")
    ELSE IF ColumnsNamed(df, y) = {} THEN Error("KeyError")
    ELSE IF x = y THEN Error("ValueError")
    ELSE LET c == ColumnPos(df, x)
             v == ColumnPos(df, y)
             keys == GroupKeys(df, c)
             func == HowFunc(how)
         IN  Grouped(keys,
                     [i \in Indices(keys) |-> Reduce(func, df, v, RowsOfKey(df, c, keys[i]))],
                     df.dtypes[c],
                     IF func \in {"mean", "median"} THEN "float64" ELSE df.dtypes[v])

aggregate(df, x, y, how) ==
    IF y = None \/ how = "contagem" THEN aggregate_count(df, x)
    ELSE aggregate_reduce(df, x, y, how)

(***************************************************************************)
(* The CSV readers, one loop iteration per step.                           *)
(***************************************************************************)
\* id;val / 1;10 / 2;20 / 1;30
SemicolonFile ==
    << <<"i", "d", ";", "v", "a", "l">>,
       <<"1", ";", "1", "0">>,
       <<"2", ";", "2", "0">>,
       <<"1", ";", "3", "0">> >>

\* id,val / 1,10 / 2,20 / 1,30
CommaFile ==
    << <<"i", "d", ",", "v", "a", "l">>,
       <<"1", ",", "1", "0">>,
       <<"2", ",", "2", "0">>,
       <<"1", ",", "3", "0">> >>

\* a;b / 1;2 / 3,4;5: the third line has two comma fields after a one-field line
RaggedCommaFile ==
    << <<"a", ";", "b">>,
       <<"1", ";", "2">>,
       <<"3", ",", "4", ";", "5">> >>

\* a<TAB>b / 1<TAB>2 / 3,4;5<TAB>6
TabFile ==
    << <<"a", "\t", "b">>,
       <<"1", "\t", "2">>,
       <<"3", ",", "4", ";", "5", "\t", "6">> >>

\* a|b / 1|2 / 3,4;5<TAB>6|7
PipeFile ==
    << <<"a", "|", "b">>,
       <<"1", "|", "2">>,
       <<"3", ",", "4", ";", "5", "\t", "6", "|", "7">> >>

\* a / 1 / 2,3;4<TAB>5|6: ragged under every separator
RaggedFile ==
    << <<"a">>,
       <<"1">>,
       <<"2", ",", "3", ";", "4", "\t", "5", "|", "6">> >>

\* n,v / <E9>,1: latin-1 text
LatinFile ==
    << <<"n", ",", "v">>,
       <<ByteE9, ",", "1">> >>

\* n;v / 1;2 / <E9>,3;4
LatinSemicolonFile ==
    << <<"n", ";", "v">>,
       <<"1", ";", "2">>,
       <<ByteE9, ",", "3", ";", "4">> >>

\* ,a, a / 0,1,2: written with its row index, two names differing by a space
IndexedFile ==
    << <<",", "a", ",", " ", "a">>,
       <<"0", ",", "1", ",", "2">> >>

\* the file of zero bytes
EmptyFile == <<>>

CsvFiles ==
    { SemicolonFile, CommaFile, RaggedCommaFile, TabFile, PipeFile, RaggedFile,
      LatinFile, LatinSemicolonFile, IndexedFile, EmptyFile }

ColId == StrL(<<"i", "d">>)
ColVal == StrL(<<"v", "a", "l">>)

\* aggregate calls made on a loaded table
CsvRequests ==
    { [x |-> x, y |-> y, how |-> how] :
        x \in {ColId, ColVal, StrL(<<"a">>)},
        y \in {None, ColVal},
        how \in {"soma", "contagem"} }

InitCsv ==
    /\ pc = "reading"
    /\ path \in {"ingest", "app"}
    /\ file \in CsvFiles
    /\ attempt = 0
    /\ tried = <<>>
    /\ table = None
    /\ result = None
    /\ result2 = None
    /\ doc = None
    /\ fellBack = FALSE
    /\ req = None

Attempted(k, df) ==
    [enc |-> Combination(k).enc, sep |-> Combination(k).sep, ok |-> ~IsError(df)]

\* ingest._read_csv, lines 93-101: one pass of the loops.  pd.read_csv and
\* _clean are both inside the try, so an exception of either is swallowed
\* and the next combination is tried.
ReadCsvIngestTry ==
    /\ pc = "reading"
    /\ path = "ingest"
    /\ attempt < NumCombinations
    /\ LET k   == attempt + 1
           df  == read_csv(file, Combination(k).enc, Combination(k).sep)
           out == IF IsError(df) THEN df ELSE clean(df)
       IN  /\ attempt' = k
           /\ tried' = Append(tried, Attempted(k, df))
           /\ IF IsError(out)
              THEN UNCHANGED <<pc, table, result>>
              ELSE pc' = "done" /\ table' = df /\ result' = out
    /\ UNCHANGED <<path, file, result2, jsonVars, req>>

\* ingest._read_csv, line 103
ReadCsvIngestExhausted ==
    /\ pc = "reading"
    /\ path = "ingest"
    /\ attempt = NumCombinations
    /\ pc' = "done"
    /\ result' = Error("ValueError")
    /\ UNCHANGED <<path, table, file, attempt, tried, result2, jsonVars, req>>

\* app.try_read_csv, lines 60-65: one pass of the loops; on success the main
\* block goes on to line 104 with the frame returned
ReadCsvAppTry ==
    /\ pc = "reading"
    /\ path = "app"
    /\ attempt < NumCombinations
    /\ LET k  == attempt + 1
           df == read_csv(file, Combination(k).enc, Combination(k).sep)
       IN  /\ attempt' = k
           /\ tried' = Append(tried, Attempted(k, df))
           /\ IF IsError(df)
              THEN UNCHANGED <<pc, table, result>>
              ELSE pc' = "done" /\ table' = df /\ result' = app_clean(df)
    /\ UNCHANGED <<path, file, result2, jsonVars, req>>

\* app.try_read_csv, line 66
ReadCsvAppExhausted ==
    /\ pc = "reading"
    /\ path = "app"
    /\ attempt = NumCombinations
    /\ pc' = "done"
    /\ result' = Error("ValueError")
    /\ UNCHANGED <<path, table, file, attempt, tried, result2, jsonVars, req>>

\* utils.aggregate on the loaded table
AggregateLoaded ==
    /\ pc = "done"
    /\ IsTable(result)
    /\ \E r \in CsvRequests :
        /\ req' = r
        /\ result2' = aggregate(result, r.x, r.y, r.how)
    /\ pc' = "aggregated"
    /\ UNCHANGED <<path, table, result, csvVars, jsonVars>>

NextCsv ==
    \/ ReadCsvIngestTry
    \/ ReadCsvIngestExhausted
    \/ ReadCsvAppTry
    \/ ReadCsvAppExhausted
    \/ AggregateLoaded

SpecCsv == InitCsv /\ [][NextCsv]_vars

\* the order of trial the claim states
ClaimedOrder ==
    << <<"utf-8", ",">>, <<"utf-8", ";">>, <<"utf-8", "\t">>, <<"utf-8", "|">>,
       <<"latin-1", ",">>, <<"latin-1", ";">>, <<"latin-1", "\t">>, <<"latin-1", "|">> >>

\* C1: the combinations are tried in the stated order; the read returns the
\* table of the first combination that parses and tries none after it; it
\* fails if and only if all 8 combinations fail to parse
C1_FirstParseWins ==
    /\ \A k \in Indices(tried) : <<tried[k].enc, tried[k].sep>> = ClaimedOrder[k]
    /\ \A k \in Indices(tried) :
          tried[k].ok =>
            /\ k = Len(tried)
            /\ pc # "reading"
            /\ IsTable(result)
            /\ table = read_csv(file, ClaimedOrder[k][1], ClaimedOrder[k][2])
    /\ pc = "done" =>
          (IsError(result) <=> (Len(tried) = Len(ClaimedOrder) /\ \A k \in Indices(tried) : ~tried[k].ok))

\* C2: the file id;val / 1;10 / 2;20 / 1;30 is read with utf-8 and ';' into 2
\* columns and 3 rows, and aggregate(T, 'id', 'val', 'soma') is (1, 40), (2, 20)
C2_SemicolonScenario ==
    /\ (pc = "done" /\ file = SemicolonFile) =>
          /\ IsTable(result)
          /\ <<tried[Len(tried)].enc, tried[Len(tried)].sep>> = <<"utf-8", ";">>
          /\ Len(result.cols) = 2
          /\ Len(result.cells) = 3
    /\ (pc = "aggregated" /\ file = SemicolonFile
          /\ req = [x |-> ColId, y |-> ColVal, how |-> "soma"]) =>
          /\ IsTable(result2)
          /\ result2.cells = << <<IntCell(1), IntCell(40)>>, <<IntCell(2), IntCell(20)>> >>

(***************************************************************************)
(* The JSON readers.  A document is the sequence of its lines; a line is   *)
(* one of these texts:                                                     *)
(*   "obj"    {"a": 1}              "arr"    [{"a": 1}, {"a": 1}]          *)
(*   "num"    5                     "blank"  spaces only                   *)
(*   "open"   {"a":                 "close"  1}                            *)
(*   "bad"    {oops                                                        *)
(* "open" followed by "close" is the object {"a": 1} written on two lines. *)
(***************************************************************************)
LineKinds == {"obj", "arr", "num", "blank", "open", "close", "bad"}

JsonDict == [t |-> "dict"]
JsonNum == [t |-> "num"]
JsonList(items) == [t |-> "list", items |-> items]

RECURSIVE NonBlank(_)
\* [line for line in raw.splitlines() if line.strip()]
NonBlank(lines) ==
    IF lines = <<>> THEN <<>>
    ELSE (IF Head(lines) = "blank" THEN <<>> ELSE <<Head(lines)>>) \o NonBlank(Tail(lines))

\* json.loads(line)
LoadsLine(kind) ==
    CASE kind = "obj" -> JsonDict
      [] kind = "arr" -> JsonList(<<JsonDict, JsonDict>>)
      [] kind = "num" -> JsonNum
      [] OTHER -> Error("JSONDecodeError")

\* json.loads(raw) of the stripped document: exactly one JSON value, with
\* any white space around and inside it
LoadsWhole(lines) ==
    LET text == NonBlank(lines)
    IN  IF text = <<"open", "close">> THEN JsonDict
        ELSE IF Len(text) = 1 THEN LoadsLine(text[1])
        ELSE Error("JSONDecodeError")

\* [json.loads(line) for line in raw.splitlines() if line.strip()]: the first
\* malformed line raises
LoadsLines(lines) ==
    LET text == NonBlank(lines)
    IN  IF \E i \in Indices(text) : IsError(LoadsLine(text[i]))
        THEN Error("JSONDecodeError")
        ELSE JsonList([i \in Indices(text) |-> LoadsLine(text[i])])

ColA == StrL(<<"a">>)

\* pd.json_normalize(data): a dict is one row, a list of rows is flattened
\* row by row (a row that is no dict has no keys), anything else is refused
json_normalize(data) ==
    IF data.t = "num" THEN Error("NotImplementedError")
    ELSE
      LET rows == IF data.t = "dict" THEN <<data>> ELSE data.items
          cols == IF \E i \in Indices(rows) : rows[i].t = "dict" THEN <<ColA>> ELSE <<>>
          full == \A i \in Indices(rows) : rows[i].t = "dict"
      IN  IF rows = <<>> THEN EmptyFrame
          ELSE Frame(cols,
                     [c \in Indices(cols) |-> IF full THEN "int64" ELSE "float64"],
                     RangeIndex(Len(rows)),
                     [i \in Indices(rows) |->
                        [c \in Indices(cols) |->
                            IF rows[i].t = "dict" THEN IntCell(1) ELSE NaN]])

\* documents of at most MaxLines lines; the array text stands alone
JsonDocs ==
    { d \in SeqsUpTo(LineKinds, MaxLines) :
        "arr" \in Range(d) => NonBlank(d) = <<"arr">> }

InitJson ==
    /\ pc = "reading"
    /\ path \in {"ingest", "app"}
    /\ doc \in JsonDocs
    /\ fellBack = FALSE
    /\ table = None
    /\ result = None
    /\ result2 = None
    /\ file = None
    /\ attempt = 0
    /\ tried = <<>>
    /\ req = None

\* ingest._read_json, lines 149-160: only json.loads is inside the try
ReadJsonIngest ==
    /\ pc = "reading"
    /\ path = "ingest"
    /\ LET whole == LoadsWhole(doc)
           data  == IF IsError(whole) THEN LoadsLines(doc) ELSE whole
           df    == IF IsError(data) THEN data ELSE json_normalize(data)
       IN  /\ fellBack' = IsError(whole)
           /\ table' = df
           /\ result' = IF IsError(df) THEN df ELSE clean(df)
    /\ pc' = "done"
    /\ UNCHANGED <<path, doc, result2, csvVars, req>>

\* app.try_read_json, lines 76-82, then line 104 of the main block:
\* json.loads and pd.json_normalize are both inside the try
ReadJsonApp ==
    /\ pc = "reading"
    /\ path = "app"
    /\ LET whole == LoadsWhole(doc)
           first == IF IsError(whole) THEN whole ELSE json_normalize(whole)
           rows  == LoadsLines(doc)
           df    == IF ~IsError(first) THEN first
                    ELSE IF IsError(rows) THEN rows
                    ELSE json_normalize(rows)
       IN  /\ fellBack' = IsError(first)
           /\ table' = df
           /\ result' = IF IsError(df) THEN df ELSE app_clean(df)
    /\ pc' = "done"
    /\ UNCHANGED <<path, doc, result2, csvVars, req>>

NextJson == ReadJsonIngest \/ ReadJsonApp

SpecJson == InitJson /\ [][NextJson]_vars

\* a line of the document that is no JSON value by itself
HasMalformedLine(d) == \E i \in Indices(d) : d[i] \in {"open", "close", "bad"}

\* whether the document as a whole is one JSON value
WholeParses(d) ==
    LET text == NonBlank(d)
    IN  \/ text \in {<<"obj">>, <<"arr">>, <<"num">>}
        \/ text = <<"open", "close">>

\* C7: the lines are parsed one by one only when the document as a whole is
\* no JSON value; then a malformed non-blank line makes the read fail, and no
\* table of the well-formed lines is returned
C7_JsonFallback ==
    pc = "done" =>
        /\ fellBack <=> ~WholeParses(doc)
        /\ (~WholeParses(doc) /\ HasMalformedLine(doc)) => IsError(result)

(***************************************************************************)
(* Raw tables handed to the cleaners.  The loaders give every column its   *)
(* own label (pd.read_csv and pd.read_excel rename repeated headers, JSON  *)
(* keys are unique), so the labels of a raw table are pairwise different;  *)
(* they may still differ only by surrounding whitespace or by type.        *)
(***************************************************************************)
LabelPool ==
    { StrL(<<"a">>), StrL(<<" ", "a">>), StrL(<<"b", " ">>),
      StrL(<<"1">>), IntL(1),
      StrL(UnnamedPattern \o <<":", " ", "0">>),
      StrL(<<" ">> \o UnnamedPattern \o <<":", " ", "0">>) }

\* the cell of row r, column c of a raw table tells where it came from
RawCells(nrows, ncols) ==
    [r \in 1..nrows |-> [c \in 1..ncols |-> IntCell(10 * r + c)]]

\* row labels of a raw table: 0..n-1, or 1..n as after a dropped first row
RawIndexes(n) == { RangeIndex(n), [i \in 1..n |-> IntL(i)] }

RawTable(cols, index) ==
    Frame(cols, [i \in Indices(cols) |-> "int64"], index,
          RawCells(Len(index), Len(cols)))

RawTables ==
    { RawTable(cols, index) :
        cols \in { s \in SeqsUpTo(LabelPool, MaxCols) : IsInjective(s) },
        index \in UNION { RawIndexes(n) : n \in 0..MaxRows } }

(***************************************************************************)
(* The cleaners applied to a raw table, and applied again to their result. *)
(***************************************************************************)
InitClean ==
    /\ pc = "raw"
    /\ path \in {"ingest", "app"}
    /\ table \in RawTables
    /\ result = None
    /\ result2 = None
    /\ file = None
    /\ attempt = 0
    /\ tried = <<>>
    /\ doc = None
    /\ fellBack = FALSE
    /\ req = None

\* ingest._clean(df); line 177 renames the caller's frame in place before
\* line 178 selects
CleanIngest ==
    /\ pc = "raw"
    /\ path = "ingest"
    /\ result' = clean(table)
    /\ table' = [table EXCEPT !.cols = StrippedColumns(table)]
    /\ pc' = "cleaned"
    /\ UNCHANGED <<path, result2, csvVars, jsonVars, req>>

\* app.py line 104
CleanApp ==
    /\ pc = "raw"
    /\ path = "app"
    /\ result' = app_clean(table)
    /\ pc' = "cleaned"
    /\ UNCHANGED <<path, table, result2, csvVars, jsonVars, req>>

\* the same cleaner on the table it returned
CleanAgain ==
    /\ pc = "cleaned"
    /\ IsTable(result)
    /\ result2' = IF path = "ingest" THEN clean(result) ELSE app_clean(result)
    /\ pc' = "recleaned"
    /\ UNCHANGED <<path, table, result, csvVars, jsonVars, req>>

NextClean == CleanIngest \/ CleanApp \/ CleanAgain

SpecClean == InitClean /\ [][NextClean]_vars

\* the stripped text of a label
Trimmed(c) == Strip(StrOf(c))

IsPlaceholder(c) == MatchUnnamed(Trimmed(c))

\* C3: clean is total: applied to any raw table it returns a table, it never
\* raises
C3_CleanTotal ==
    (pc = "cleaned" /\ path = "ingest") => IsTable(result)

\* C4: after cleaning, on either path, no column's trimmed name starts with
\* Unnamed, and every other column of the raw table is kept, in order
C4_PlaceholdersDropped ==
    pc = "cleaned" =>
        /\ IsTable(result)
        /\ \A i \in Indices(result.cols) : ~IsPlaceholder(result.cols[i])
        /\ [i \in Indices(result.cols) |-> Trimmed(result.cols[i])]
             = SelectAt([i \in Indices(table.cols) |-> Trimmed(table.cols[i])],
                        [i \in Indices(table.cols) |-> ~IsPlaceholder(table.cols[i])])

\* C5: the column names of clean(rawTable) are pairwise different
C5_UniqueNames ==
    (pc = "cleaned" /\ path = "ingest") =>
        /\ IsTable(result)
        /\ IsInjective(result.cols)

\* C6: clean(clean(T)) has the columns, the row index 0..n-1 and the cells of
\* clean(T)
C6_Idempotent ==
    (pc \in {"cleaned", "recleaned"} /\ path = "ingest") =>
        /\ IsTable(result)
        /\ result.index = RangeIndex(Len(result.cells))
        /\ pc = "recleaned" => result2 = result

(***************************************************************************)
(* utils.infer_types.                                                      *)
(***************************************************************************)
DtypePool == {"int64", "float64", "bool", "object", "datetime64[ns]"}

\* pd.api.types.is_numeric_dtype of a dtype: np.number and np.bool_ count as
\* numeric, datetimes and object do not
IsNumericDtype(dtype) == dtype \in {"int64", "float64", "bool"}

\* pd.api.types.is_numeric_dtype(df[c]): df[c] is a Series when one column is
\* labelled c, and a DataFrame (never numeric) when several are
IsNumericColumn(df, c) ==
    /\ Cardinality(ColumnsNamed(df, c)) = 1
    /\ IsNumericDtype(df.dtypes[ColumnPos(df, c)])

\* line 11: text = [c for c in df.columns if c not in numeric]
TextColumns(df, numeric) ==
    SelectAt(df.cols, [i \in Indices(df.cols) |-> df.cols[i] \notin Range(numeric)])

\* infer_types with line 11 keeping every column, its filter dropped
infer_types_text_all(df) ==
    LET numeric == SelectAt(df.cols, [i \in Indices(df.cols) |-> IsNumericColumn(df, df.cols[i])])
    IN  [numeric |-> numeric, text |-> df.cols]

infer_types(df) ==
    LET numeric == SelectAt(df.cols, [i \in Indices(df.cols) |-> IsNumericColumn(df, df.cols[i])])
    IN  [numeric |-> numeric, text |-> TextColumns(df, numeric)]

\* loaded tables seen by their columns: a label and a dtype each
TypedTables ==
    UNION { { Frame(cols, dtypes, <<>>, <<>>) : dtypes \in [Indices(cols) -> DtypePool] } :
              cols \in { s \in SeqsUpTo(LabelPool, MaxCols) : IsInjective(s) } }

InitTypes ==
    /\ pc = "loaded"
    /\ path = "app"
    /\ table \in TypedTables
    /\ result = None
    /\ result2 = None
    /\ file = None
    /\ attempt = 0
    /\ tried = <<>>
    /\ doc = None
    /\ fellBack = FALSE
    /\ req = None

\* app.py line 186: types = infer_types(df)
Classify ==
    /\ pc = "loaded"
    /\ result' = infer_types(table)
    /\ pc' = "classified"
    /\ UNCHANGED <<path, table, result2, csvVars, jsonVars, req>>

NextTypes == Classify

SpecTypes == InitTypes /\ [][NextTypes]_vars

\* C8: a column is in the numeric list if and only if its element type is
\* integer or float; a column of any other type is in the textual list
C8_NumericIffIntOrFloat ==
    pc = "classified" =>
        \A i \in Indices(table.cols) :
            IF table.dtypes[i] \in {"int64", "float64"}
            THEN table.cols[i] \in Range(result.numeric)
            ELSE table.cols[i] \in Range(result.text)

\* C9: every column name is in exactly one of the two lists, the lists are
\* disjoint, and together they hold all the columns of the table
C9_Partition ==
    pc = "classified" =>
        /\ Range(result.numeric) \cap Range(result.text) = {}
        /\ Range(result.numeric) \cup Range(result.text) = Range(table.cols)
        /\ Len(result.numeric) + Len(result.text) = Len(table.cols)

\* a classified table with a numeric and a textual column
C9_Witness ==
    /\ pc = "classified"
    /\ result.numeric # <<>>
    /\ result.text # <<>>

(***************************************************************************)
(* utils.aggregate on a table of a key column and a column of numbers.     *)
(***************************************************************************)
KeyCells == {IntCell(1), IntCell(2), NaN}

\* row r holds the key keys[r] and the number 10 * r
AggTable(keyLabel, keys) ==
    Frame(<<keyLabel, ColVal>>,
          <<IF NaN \in Range(keys) THEN "float64" ELSE "int64", "int64">>,
          RangeIndex(Len(keys)),
          [r \in Indices(keys) |-> <<keys[r], IntCell(10 * r)>>])

AggTables ==
    { AggTable(keyLabel, keys) :
        keyLabel \in {ColId, ColValor}, keys \in SeqsUpTo(KeyCells, MaxAggRows) }

\* the modes of the selectbox (app.py line 291) and one that is none of them
Modes == {"soma", "média", "contagem", "mediana", "máximo", "mínimo", "outro"}

InitAgg ==
    /\ pc = "loaded"
    /\ path = "app"
    /\ table \in AggTables
    /\ result = None
    /\ result2 = None
    /\ file = None
    /\ attempt = 0
    /\ tried = <<>>
    /\ doc = None
    /\ fellBack = FALSE
    /\ req = None

\* aggregate(df, x, y, how) with x the key column, y the column of numbers
\* or None
Aggregate ==
    /\ pc = "loaded"
    /\ \E y \in {None, ColVal}, how \in Modes :
        /\ req' = [x |-> table.cols[1], y |-> y, how |-> how]
        /\ result' = aggregate(table, table.cols[1], y, how)
    /\ pc' = "aggregated"
    /\ UNCHANGED <<path, table, result2, csvVars, jsonVars>>

NextAgg == Aggregate

SpecAgg == InitAgg /\ [][NextAgg]_vars

\* the rows of the table whose key is k
TrueCount(k) == Cardinality({ r \in Indices(table.cells) : table.cells[r][1] = k })

\* C10: without a value column, or in mode 'contagem', the result has one row
\* per distinct key (the missing key included), its 'valor' is the number of
\* rows with that key, and the 'valor' entries add up to the number of rows
C10_CountPerKey ==
    (pc = "aggregated" /\ (req.y = None \/ req.how = "contagem")) =>
        /\ IsTable(result)
        /\ result.cols = <<ColX, ColValor>>
        /\ \A r \in Indices(table.cells) :
              Cardinality({ i \in Indices(result.cells) :
                              result.cells[i][1] = table.cells[r][1] }) = 1
        /\ \A i \in Indices(result.cells) :
              /\ TrueCount(result.cells[i][1]) > 0
              /\ result.cells[i][2] = IntCell(TrueCount(result.cells[i][1]))
        /\ SumOf([i \in Indices(result.cells) |-> result.cells[i][2].n],
                 Indices(result.cells)) = Len(table.cells)

\* the first row of the table that holds the key k
FirstRow(k) == CHOOSE r \in Indices(table.cells) :
                  /\ table.cells[r][1] = k
                  /\ \A q \in 1..(r - 1) : table.cells[q][1] # k

\* C11 as stated: the rows of the result follow the order in which the keys
\* are first met in the rows of the table
C11_FirstEncounterOrder ==
    (pc = "aggregated" /\ IsTable(result)) =>
        \A i, j \in Indices(result.cells) :
            FirstRow(result.cells[i][1]) < FirstRow(result.cells[j][1]) => i < j

\* C11 amended: the rows of the result are in ascending order of the key with
\* the missing key last, whatever the order of the rows of the table
C11_SortedByKey ==
    (pc = "aggregated" /\ IsTable(result)) =>
        \A i, j \in Indices(result.cells) :
            i < j =>
                /\ result.cells[i][1].t = "int"
                /\ \/ result.cells[j][1].t = "nan"
                   \/ result.cells[i][1].n < result.cells[j][1].n

\* a table that meets the key 2 before the key 1 has been aggregated
C11_Witness ==
    /\ pc = "aggregated"
    /\ IsTable(result)
    /\ Len(table.cells) >= 2
    /\ table.cells[1][1] = IntCell(2)
    /\ table.cells[2][1] = IntCell(1)
    /\ Len(result.cells) >= 2

(***************************************************************************)
(* utils.ensure_datetime and utils.time_aggregate.  A timestamp is a day,  *)
(* counted from 2023-01-01 (a Sunday) as day 0; the calendar covers the    *)
(* years 2023 to 2025.                                                     *)
(***************************************************************************)
NaT == [t |-> "nat"]
DateCell(d) == [t |-> "date", d |-> d]

MonthLengths ==
    <<31, 28, 31, 30, 31, 30, 31, 31, 30, 31, 30, 31,
      31, 29, 31, 30, 31, 30, 31, 31, 30, 31, 30, 31,
      31, 28, 31, 30, 31, 30, 31, 31, 30, 31, 30, 31>>

\* the day on which the m-th month of the calendar starts
MonthStarts ==
    [m \in 1..(Len(MonthLengths) + 1) |-> SumOf(MonthLengths, 1..(m - 1))]

\* the m-th month of the calendar, from the year and the month of the year
MonthIndex(year, month) == (year - 2023) * 12 + month

Date(year, month, day) == MonthStarts[MonthIndex(year, month)] + day - 1

MonthOf(d) ==
    CHOOSE m \in Indices(MonthLengths) : MonthStarts[m] <= d /\ d < MonthStarts[m + 1]

\* the text YYYY-MM-DD
Pad2(n) == IF n < 10 THEN <<"0">> \o IntToStr(n) ELSE IntToStr(n)
IsoText(year, month, day) ==
    IntToStr(year) \o <<"-">> \o Pad2(month) \o <<"-">> \o Pad2(day)

\* pd.to_datetime(..., errors="coerce") of one cell: a text YYYY-MM-DD of the
\* calendar is that day; a missing cell and any other text are NaT
to_datetime(cell) ==
    IF cell.t # "str" THEN NaT
    ELSE LET s == cell.s
         IN  IF /\ Len(s) = 10
                /\ s[5] = "-"
                /\ s[8] = "-"
                /\ IsDigits(SubSeq(s, 1, 4))
                /\ IsDigits(SubSeq(s, 6, 7))
                /\ IsDigits(SubSeq(s, 9, 10))
             THEN LET year == ParseInt(SubSeq(s, 1, 4))
                      month == ParseInt(SubSeq(s, 6, 7))
                      day == ParseInt(SubSeq(s, 9, 10))
                  IN  IF /\ month \in 1..12
                         /\ MonthIndex(year, month) \in Indices(MonthLengths)
                         /\ day \in 1..MonthLengths[MonthIndex(year, month)]
                      THEN DateCell(Date(year, month, day))
                      ELSE NaT
             ELSE NaT

\* lines 92-96: a datetime64 column is returned as it is, any other column is
\* parsed cell by cell
ensure_datetime(df, c) ==
    IF df.dtypes[c] = "datetime64[ns]" THEN [r \in Indices(df.cells) |-> df.cells[r][c]]
    ELSE [r \in Indices(df.cells) |-> to_datetime(df.cells[r][c])]

\* the frequencies of app.py line 266
Freqs == {"D", "W", "M", "Q", "Y"}

\* the number of the period of frequency freq that holds the day d: days,
\* weeks from Monday to Sunday, months, quarters and years of the calendar
BinOf(freq, d) ==
    CASE freq = "D" -> d
      [] freq = "W" -> (d + 6) \div 7
      [] freq = "M" -> MonthOf(d)
      [] freq = "Q" -> (MonthOf(d) + 2) \div 3
      [] freq = "Y" -> (MonthOf(d) + 11) \div 12

\* the timestamp resample(freq) labels the period b with: the day itself, and
\* the last day of the week, month, quarter, year
BinLabel(freq, b) ==
    CASE freq = "D" -> b
      [] freq = "W" -> 7 * b
      [] freq = "M" -> MonthStarts[b + 1] - 1
      [] freq = "Q" -> MonthStarts[(3 * b) + 1] - 1
      [] freq = "Y" -> MonthStarts[(12 * b) + 1] - 1

\* the days of a datetime series, NaT left out
DaysOf(sdt) == { sdt[r].d : r \in { q \in Indices(sdt) : sdt[q].t = "date" } }

MinOf(S) == CHOOSE a \in S : \A b \in S : a <= b
MaxOf(S) == CHOOSE a \in S : \A b \in S : a >= b

\* only the periods that hold a row, ascending
OccupiedBins(freq, days) ==
    LET bins == { BinOf(freq, d) : d \in days }
    IN  [i \in 1..Cardinality(bins) |->
            CHOOSE b \in bins : Cardinality({ q \in bins : q < b }) = i - 1]

\* resample(freq): every period from the one of the earliest day to the one
\* of the latest day, ascending, whether a row falls in it or not
ResampleBins(freq, days) ==
    IF days = {} THEN <<>>
    ELSE LET lo == BinOf(freq, MinOf(days))
             hi == BinOf(freq, MaxOf(days))
         IN  [i \in 1..(hi - lo + 1) |-> lo + i - 1]

\* the rows whose timestamp falls in the period b; a row of NaT is in none
RowsOfBin(sdt, freq, b) ==
    { r \in Indices(sdt) : sdt[r].t = "date" /\ BinOf(freq, sdt[r].d) = b }

ColDt == StrL(<<"_", "d", "t">>)

\* lines 119 and 122: one row per period of bins, in that order, holding the
\* label of the period and the size (v = 0) or the reduction func of the
\* column v of its rows; reset_index(name="valor") names the two columns
\* "_dt" and "valor"
Resampled(df, sdt, v, func, freq, bins) ==
    LET value(b) == IF v = 0 THEN IntCell(Cardinality(RowsOfBin(sdt, freq, b)))
                    ELSE Reduce(func, df, v, RowsOfBin(sdt, freq, b))
        cells == [i \in Indices(bins) |-> <<DateCell(BinLabel(freq, bins[i])), value(bins[i])>>]
    IN  Frame(<<ColDt, ColValor>>,
              <<"datetime64[ns]",
                IF v = 0 \/ func = "count" THEN "int64"
                ELSE IF func \in {"mean", "median"} THEN "float64"
                ELSE IF func = "sum" THEN df.dtypes[v]
                ELSE IF \E i \in Indices(cells) : cells[i][2] = NaN THEN "float64"
                ELSE df.dtypes[v]>>,
              RangeIndex(Len(bins)),
              cells)

\* line 124: rename(columns={"_dt": "x"})
RenameDt(df) ==
    [df EXCEPT !.cols = [c \in Indices(df.cols) |->
                            IF df.cols[c] = ColDt THEN ColX ELSE df.cols[c]]]

\* the order of sort_values on a datetime column: ascending, NaT last
DateLess(a, b) == a.t = "date" /\ (b.t = "nat" \/ a.d < b.d)

RECURSIVE InsertRow(_, _, _)
InsertRow(row, rows, c) ==
    IF rows = <<>> THEN <<row>>
    ELSE IF DateLess(row[c], Head(rows)[c]) THEN <<row>> \o rows
    ELSE <<Head(rows)>> \o InsertRow(row, Tail(rows), c)

RECURSIVE SortRows(_, _)
SortRows(rows, c) ==
    IF rows = <<>> THEN <<>>
    ELSE InsertRow(rows[Len(rows)], SortRows(SubSeq(rows, 1, Len(rows) - 1), c), c)

\* df.sort_values(x): a stable sort of the rows, each with its row label
SortValues(df, x) ==
    LET c == ColumnPos(df, x)
        n == Len(df.cells)
        sorted == SortRows([r \in 1..n |-> <<df.index[r]>> \o df.cells[r]], c + 1)
    IN  [df EXCEPT !.index = [r \in 1..n |-> sorted[r][1]],
                   !.cells = [r \in 1..n |-> Tail(sorted[r])]]

\* the periods in the order in which the rows first fall in them, and no
\* final sort
time_aggregate_unsorted(df, date_col, y, how, freq) ==
    IF ColumnsNamed(df, date_col) = {} THEN Error("KeyError")
    ELSE LET sdt == ensure_datetime(df, ColumnPos(df, date_col))
             firsts == { r \in Indices(sdt) :
                           /\ sdt[r].t = "date"
                           /\ \A q \in 1..(r - 1) :
                                sdt[q].t = "date" =>
                                    BinOf(freq, sdt[q].d) # BinOf(freq, sdt[r].d) }
             bins == [i \in 1..Cardinality(firsts) |->
                         BinOf(freq, sdt[CHOOSE r \in firsts :
                                            Cardinality({ q \in firsts : q < r }) = i - 1].d)]
         IN  IF y = None \/ how = "contagem"
             THEN RenameDt(Resampled(df, sdt, 0, "size", freq, bins))
             ELSE IF y = ColDt \/ ColumnsNamed(df, y) = {} THEN Error("KeyError")
             ELSE RenameDt(Resampled(df, sdt, ColumnPos(df, y), HowFunc(how), freq, bins))

\* lines 114-127
time_aggregate(df, date_col, y, how, freq) ==
    IF ColumnsNamed(df, date_col) = {} THEN Error("KeyError")
    ELSE LET sdt == ensure_datetime(df, ColumnPos(df, date_col))
             bins == ResampleBins(freq, DaysOf(sdt))
         IN  IF y = None \/ how = "contagem"
             THEN ResetIndex(SortValues(RenameDt(
                      Resampled(df, sdt, 0, "size", freq, bins)), ColX))
             ELSE IF y = ColDt \/ ColumnsNamed(df, y) = {} THEN Error("KeyError")
             ELSE ResetIndex(SortValues(RenameDt(
                      Resampled(df, sdt, ColumnPos(df, y), HowFunc(how), freq, bins)), ColX))

(***************************************************************************)
(* time_aggregate on a table of a date column and a column of numbers.     *)
(***************************************************************************)
ColData == StrL(<<"d", "a", "t", "a">>)

\* 2023-12-31, 2024-09-30, 2024-11-30, 2025-01-01
DatePool == { <<2023, 12, 31>>, <<2024, 9, 30>>, <<2024, 11, 30>>, <<2025, 1, 1>> }

\* the cells of a datetime64 column and of a column of text read from a file;
\* either may hold a missing cell
TimestampCells == { DateCell(Date(d[1], d[2], d[3])) : d \in DatePool } \cup {NaT}
DateTextCells == { StrCell(IsoText(d[1], d[2], d[3])) : d \in DatePool } \cup {NaN}

\* row r holds the date dates[r] and the number 10 * r
TimeTable(dtype, dates) ==
    Frame(<<ColData, ColVal>>, <<dtype, "int64">>, RangeIndex(Len(dates)),
          [r \in Indices(dates) |-> <<dates[r], IntCell(10 * r)>>])

\* a table has no row or at least one row with a date
HasDate(dates) == dates = <<>> \/ \E r \in Indices(dates) : dates[r] \notin {NaT, NaN}

TimeTables ==
    { TimeTable("datetime64[ns]", dates) :
        dates \in { ds \in SeqsUpTo(TimestampCells, MaxTimeRows) : HasDate(ds) } }
    \cup
    { TimeTable("object", dates) :
        dates \in { ds \in SeqsUpTo(DateTextCells, MaxTimeRows) : HasDate(ds) } }

\* the rows of df in the order p[1], p[2], ...
Permuted(df, p) ==
    [df EXCEPT !.index = [r \in Indices(df.cells) |-> df.index[p[r]]],
               !.cells = [r \in Indices(df.cells) |-> df.cells[p[r]]]]

RowOrders(n) == { p \in [1..n -> 1..n] : IsInjective(p) }

\* the number of periods resample(freq) makes of the date column of df
NumBins(df, freq) == Len(ResampleBins(freq, DaysOf(ensure_datetime(df, 1))))

InitTime ==
    /\ pc = "loaded"
    /\ path = "app"
    /\ table \in TimeTables
    /\ result = None
    /\ result2 = None
    /\ file = None
    /\ attempt = 0
    /\ tried = <<>>
    /\ doc = None
    /\ fellBack = FALSE
    /\ req = None

\* time_aggregate(df, date_col, y, how, freq) on the table
TimeAggregate ==
    /\ pc = "loaded"
    /\ \E y \in {None, ColVal}, how \in Modes, freq \in Freqs :
        /\ NumBins(table, freq) <= MaxBins
        /\ req' = [df |-> table, date_col |-> ColData, y |-> y, how |-> how, freq |-> freq]
        /\ result' = time_aggregate(table, ColData, y, how, freq)
    /\ pc' = "aggregated"
    /\ UNCHANGED <<path, table, result2, csvVars, jsonVars>>

\* the same call on the same rows in another order
TimeAggregatePermuted ==
    /\ pc = "aggregated"
    /\ \E p \in RowOrders(Len(table.cells)) :
        /\ req' = [req EXCEPT !.df = Permuted(table, p)]
        /\ result2' = time_aggregate(Permuted(table, p), req.date_col, req.y, req.how, req.freq)
    /\ pc' = "reaggregated"
    /\ UNCHANGED <<path, table, result, csvVars, jsonVars>>

NextTime == TimeAggregate \/ TimeAggregatePermuted

SpecTime == InitTime /\ [][NextTime]_vars

\* the periods that hold a row of the table, by the call's frequency
TruePeriods == { BinOf(req.freq, d) : d \in DaysOf(ensure_datetime(table, 1)) }

\* C12 as stated: the result has a row for a period only if the timestamp of
\* some row of the table falls in that period
C12_EmptyBucketsOmitted ==
    (pc = "aggregated" /\ IsTable(result)) =>
        \A i \in Indices(result.cells) :
            \E b \in TruePeriods : result.cells[i][1] = DateCell(BinLabel(req.freq, b))

\* C12 amended: the result has exactly one row for every period from the
\* earliest to the latest period that holds a row, and no other row; a period
\* that holds no row has 'valor' 0 when rows are counted or summed and a
\* missing 'valor' in the other modes
C12_EveryPeriodOfRange ==
    (pc = "aggregated" /\ IsTable(result)) =>
        /\ TruePeriods = {} => result.cells = <<>>
        /\ TruePeriods # {} =>
            /\ \A b \in MinOf(TruePeriods)..MaxOf(TruePeriods) :
                  Cardinality({ i \in Indices(result.cells) :
                      result.cells[i][1] = DateCell(BinLabel(req.freq, b)) }) = 1
            /\ \A i \in Indices(result.cells) :
                  \E b \in MinOf(TruePeriods)..MaxOf(TruePeriods) :
                      /\ result.cells[i][1] = DateCell(BinLabel(req.freq, b))
                      /\ b \notin TruePeriods =>
                            result.cells[i][2] =
                                IF req.y = None \/ req.how = "contagem"
                                   \/ HowFunc(req.how) = "sum"
                                THEN IntCell(0) ELSE NaN

\* a result with a row for a period in which no row of the table falls
C12_Witness ==
    /\ pc = "aggregated"
    /\ IsTable(result)
    /\ \E i \in Indices(result.cells) :
          \A b \in TruePeriods : result.cells[i][1] # DateCell(BinLabel(req.freq, b))

\* the first and the last day of the period b
PeriodStart(freq, b) ==
    CASE freq = "D" -> b
      [] freq = "W" -> (7 * b) - 6
      [] freq = "M" -> MonthStarts[b]
      [] freq = "Q" -> MonthStarts[(3 * b) - 2]
      [] freq = "Y" -> MonthStarts[(12 * b) - 11]

PeriodEnd(freq, b) == PeriodStart(freq, b + 1) - 1

\* the result of a call is in strictly ascending order of 'x', so it has one
\* row per period, and the same rows in another order give the same result
SortedAndOrderFree ==
    /\ (pc \in {"aggregated", "reaggregated"} /\ IsTable(result)) =>
          /\ result.cols = <<ColX, ColValor>>
          /\ \A i, j \in Indices(result.cells) :
                i < j => result.cells[i][1].d < result.cells[j][1].d
    /\ pc = "reaggregated" => result2 = result

\* C13 as stated: 'x' holds the start of the period of the row, the result is
\* in ascending order of 'x' with one row per period, and the same rows in
\* another order give the same result
C13_SortedByPeriodStart ==
    /\ SortedAndOrderFree
    /\ (pc \in {"aggregated", "reaggregated"} /\ IsTable(result)) =>
          \A i \in Indices(result.cells) :
              \E b \in MinOf(TruePeriods)..MaxOf(TruePeriods) :
                  result.cells[i][1] = DateCell(PeriodStart(req.freq, b))

\* C13 amended: 'x' holds the label of the period of the row, which is the
\* day for the frequency of days and the last day of the week, month, quarter
\* or year for the others; the result is in ascending order of 'x' with one
\* row per period, and the same rows in another order give the same result
C13_SortedByPeriodLabel ==
    /\ SortedAndOrderFree
    /\ (pc \in {"aggregated", "reaggregated"} /\ IsTable(result)) =>
          \A i \in Indices(result.cells) :
              \E b \in MinOf(TruePeriods)..MaxOf(TruePeriods) :
                  result.cells[i][1] = DateCell(PeriodEnd(req.freq, b))

\* rows whose dates descend have been aggregated into two periods or more,
\* and again in the opposite order
C13_Witness ==
    /\ pc = "reaggregated"
    /\ req.df.cells # table.cells
    /\ IsTable(result)
    /\ Len(result.cells) >= 2
    /\ LET sdt == ensure_datetime(table, 1)
       IN  \E r \in Indices(sdt) : \E q \in Indices(sdt) :
             r < q /\ sdt[r].t = "date" /\ sdt[q].t = "date" /\ sdt[q].d < sdt[r].d

(***************************************************************************)
(* viz.plot_generic.                                                       *)
(***************************************************************************)
\* raise ValueError(msg) of plot_generic itself
InvalidChart(msg) == [err |-> "ValueError", msg |-> msg]

IsInvalidChartRequest(v) == IsError(v) /\ "msg" \in DOMAIN v

\* a plotly express call: the figure of the frame, once every column it is
\* given by name is a column of the frame (plotly raises ValueError if not)
Px(kind, df, x, y, color) ==
    IF \E c \in {x, y, color} : c # None /\ ColumnsNamed(df, c) = {}
    THEN Error("ValueError")
    ELSE [fig |-> kind, data |-> df, x |-> x, y |-> y, color |-> color]

\* df.groupby(x, dropna=False)[y].sum().reset_index(): the sums per key under
\* the names x and y
GroupSum(df, x, y) ==
    LET grouped == aggregate_reduce(df, x, y, "soma")
    IN  IF IsError(grouped) THEN grouped ELSE [grouped EXCEPT !.cols = <<x, y>>]

ColCount == StrL(<<"c", "o", "u", "n", "t">>)

\* line 34: df[x].value_counts(dropna=False).rename_axis(x)
\* .reset_index(name="count"): the keys by falling count, equal counts in the
\* order of their first row
ValueCounts(df, x) ==
    IF ColumnsNamed(df, x) = {} THEN Error("KeyError")
    ELSE IF x = ColCount THEN Error("ValueError")
    ELSE LET c == ColumnPos(df, x)
             keys == GroupKeysUnsorted(df, c)
             n(i) == Cardinality(RowsOfKey(df, c, keys[i]))
             before(i, j) == n(i) > n(j) \/ (n(i) = n(j) /\ i < j)
             at(k) == CHOOSE i \in Indices(keys) :
                         Cardinality({ j \in Indices(keys) : before(j, i) }) = k - 1
         IN  Frame(<<x, ColCount>>, <<df.dtypes[c], "int64">>, RangeIndex(Len(keys)),
                   [k \in Indices(keys) |-> <<keys[at(k)], IntCell(n(at(k)))>>])

\* lines 10-12: an aggregated frame whose "x" is of datetime64 is sorted by it
SortedIfTime(df, aggregated) ==
    IF /\ aggregated
       /\ ColumnsNamed(df, ColX) # {}
       /\ df.dtypes[ColumnPos(df, ColX)] = "datetime64[ns]"
    THEN ResetIndex(SortValues(df, ColX))
    ELSE df

\* lines 14-20
plot_barras(df, x, y, color, aggregated) ==
    IF aggregated THEN Px("bar", df, ColX, ColValor, color)
    ELSE IF y = None THEN Px("bar", df, x, None, color)
    ELSE LET grouped == GroupSum(df, x, y)
         IN  IF IsError(grouped) THEN grouped ELSE Px("bar", grouped, x, y, color)

\* the test of y made before the test of aggregated
plot_linha_y_first(df, x, y, color, aggregated) ==
    IF y = None THEN InvalidChart("Para Linha, selecione Y numérico.")
    ELSE IF aggregated THEN Px("line", df, ColX, ColValor, color)
    ELSE LET grouped == GroupSum(df, x, y)
         IN  IF IsError(grouped) THEN grouped ELSE Px("line", grouped, x, y, color)

\* lines 22-28
plot_linha(df, x, y, color, aggregated) ==
    IF aggregated THEN Px("line", df, ColX, ColValor, color)
    ELSE IF y = None THEN InvalidChart("Para Linha, selecione Y numérico.")
    ELSE LET grouped == GroupSum(df, x, y)
         IN  IF IsError(grouped) THEN grouped ELSE Px("line", grouped, x, y, color)

\* lines 30-37; the pie takes no color
plot_pizza(df, x, y, aggregated) ==
    IF aggregated THEN Px("pie", df, ColX, ColValor, None)
    ELSE IF y = None
    THEN LET counts == ValueCounts(df, x)
         IN  IF IsError(counts) THEN counts ELSE Px("pie", counts, x, ColCount, None)
    ELSE LET grouped == GroupSum(df, x, y)
         IN  IF IsError(grouped) THEN grouped ELSE Px("pie", grouped, x, y, None)

\* lines 4-48
plot_generic(tipo, df0, x, y, color, aggregated) ==
    LET df == SortedIfTime(df0, aggregated)
    IN  IF tipo = "Barras" THEN plot_barras(df, x, y, color, aggregated)
        ELSE IF tipo = "Linha" THEN plot_linha(df, x, y, color, aggregated)
        ELSE IF tipo = "Pizza" THEN plot_pizza(df, x, y, aggregated)
        ELSE IF tipo = "Histograma" THEN Px("histogram", df, x, None, color)
        ELSE IF tipo = "Scatter"
        THEN IF y = None THEN InvalidChart("Para Scatter, selecione Y numérico.")
             ELSE Px("scatter", df, x, y, color)
        ELSE InvalidChart("Tipo de gráfico não suportado.")

\* the kinds of the selectbox of the app and one that is none of them
Tipos == {"Barras", "Linha", "Pizza", "Histograma", "Scatter", "Outro"}

\* the frames a chart is made of: a table as loaded, its sums per key, and
\* the sums per year of a table of dates in any order of rows (app.py line
\* 315 sorts the aggregated rows by "valor")
ChartFrames ==
    LET raw == { AggTable(ColId, keys) : keys \in SeqsUpTo(KeyCells, MaxAggRows) }
        yearly == { time_aggregate(t, ColData, ColVal, "soma", "Y") : t \in TimeTables }
    IN  raw
        \cup { aggregate(t, ColId, ColVal, "soma") : t \in raw }
        \cup UNION { { Permuted(f, p) : p \in RowOrders(Len(f.cells)) } : f \in yearly }

InitChart ==
    /\ pc = "loaded"
    /\ path = "app"
    /\ table \in ChartFrames
    /\ result = None
    /\ result2 = None
    /\ file = None
    /\ attempt = 0
    /\ tried = <<>>
    /\ doc = None
    /\ fellBack = FALSE
    /\ req = None

\* the labels of the columns of numbers (app.py line 271 offers these for y)
NumericLabels(df) == { df.cols[c] : c \in { k \in Indices(df.cols) : IsNumericDtype(df.dtypes[k]) } }

\* plot_generic(tipo, df, x, y, color, aggregated) with x a column of the
\* frame, y a column of numbers or None, color a column or None
Plot ==
    /\ pc = "loaded"
    /\ \E tipo \in Tipos, x \in Range(table.cols), y \in NumericLabels(table) \cup {None},
          color \in {table.cols[1], None}, aggregated \in BOOLEAN :
        /\ req' = [tipo |-> tipo, x |-> x, y |-> y, color |-> color,
                   aggregated |-> aggregated]
        /\ result' = plot_generic(tipo, table, x, y, color, aggregated)
    /\ pc' = "plotted"
    /\ UNCHANGED <<path, table, result2, csvVars, jsonVars>>

NextChart == Plot

SpecChart == InitChart /\ [][NextChart]_vars

\* C14: plot_generic raises its own ValueError exactly when the kind is
\* Scatter and y is None, or the kind is Linha, aggregated is false and y is
\* None, or the kind is none of the five; in every other case it raises none
C14_InvalidChartRequest ==
    pc = "plotted" =>
        (IsInvalidChartRequest(result) <=>
            \/ req.tipo = "Scatter" /\ req.y = None
            \/ req.tipo = "Linha" /\ ~req.aggregated /\ req.y = None
            \/ req.tipo \notin {"Barras", "Linha", "Pizza", "Histograma", "Scatter"})

\* an aggregated line chart without y has been drawn
C14_Witness ==
    /\ pc = "plotted"
    /\ req.tipo = "Linha"
    /\ req.aggregated
    /\ req.y = None
    /\ "fig" \in DOMAIN result
    /\ result.fig = "line"

====
